---- MODULE Spec2Model ----
(***************************************************************************)
(* A model of ai2_kit/domain/dplr.py: the CP2K/Wannier dipole assignor and *)
(* its loader, the LAMMPS virtual-atom writer, the unused-symbol chooser   *)
(* and the v2 <-> v3 tensor reshapers.                                     *)
(*                                                                         *)
(* Conventions.  Python lists and numpy arrays are TLA+ sequences; a       *)
(* Python index i (0-based) is kept as the number i and dereferenced with  *)
(* At(s, i) == s[i + 1].  Coordinates are integer 3-vectors in a cubic     *)
(* periodic cell of edge BoxLen; every coordinate is a multiple of         *)
(* NWannier, so the mean of four displacements is an exact integer         *)
(* division.  Distances are compared squared (dist < cutoff is             *)
(* dist^2 < cutoff^2 for non-negative numbers).                            *)
(***************************************************************************)
EXTENDS Integers, Sequences, FiniteSets, TLC

VARIABLES pc,        \* "idle" before the call of a run, "done" after it
          frame,     \* the inputs of the loader call
          gad,       \* what get_atomic_dipole did in that call
          ext,       \* what set_dplr_ext_from_cp2k_output did in that call
          loaded,    \* what dpdata_read_cp2k_dplr_data did in that call
          call,      \* the arguments of the dump_dplr_lammps_data call
          dump,      \* what dump_dplr_lammps_data did
          gus,       \* a call of get_unused_symbols and what it returned
          disk,      \* the data directory of the reshapers: metadata and files
          orig,      \* how that directory was first written
          trail      \* the reshaper calls made so far, with their outcome

vars == <<pc, frame, gad, ext, loaded, call, dump, gus, disk, orig, trail>>

(***************************************************************************)
(* Bounds of the model.                                                    *)
(***************************************************************************)
MaxAtoms == 2        \* atoms of the labeled system
MaxCentres == 8      \* Wannier centres in the wannier file
MaxDumpAtoms == 3    \* atoms of the structure given to the LAMMPS writer
MaxSel == 2          \* entries of its sel_type
MaxSize == 3         \* the size asked of get_unused_symbols
MaxTypeAtoms == 2    \* atoms listed in type.raw of the data directory
MaxOps == 2          \* reshaper calls in a run

(***************************************************************************)
(* Generic helpers.                                                        *)
(***************************************************************************)
At(s, i) == s[i + 1]

Range(s) == {s[i] : i \in 1..Len(s)}

RECURSIVE SortedSeq(_)
\* the elements of a finite set of integers in ascending order (np.where)
SortedSeq(S) ==
    IF S = {} THEN <<>>
    ELSE LET m == CHOOSE x \in S : \A y \in S : x <= y
         IN <<m>> \o SortedSeq(S \ {m})

RECURSIVE Flatten(_)
\* np.reshape(list_of_arrays, (-1)): the rows one after another
Flatten(rows) ==
    IF rows = <<>> THEN <<>> ELSE Head(rows) \o Flatten(Tail(rows))

Copies(n, x) == [i \in 1..n |-> x]

(***************************************************************************)
(* Geometry: the periodic cell and the MDAnalysis routines.                *)
(***************************************************************************)
\* the exact count of Wannier centres an atom must have (cn != 4)
NWannier == 4

\* edge of the cubic cell of the frame (dp_sys.data["cells"])
BoxLen == 5 * NWannier

VSub(a, b) == <<a[1] - b[1], a[2] - b[2], a[3] - b[3]>>
VAdd(a, b) == <<a[1] + b[1], a[2] + b[2], a[3] + b[3]>>
VZero == <<0, 0, 0>>

\* one component under the minimum-image convention: v - L * rint(v / L),
\* where rint rounds a half to the even integer 0
MinImage(d) ==
    IF 2 * d > BoxLen THEN d - BoxLen
    ELSE IF 2 * d < -BoxLen THEN d + BoxLen
    ELSE d

minimize_vectors(v) == <<MinImage(v[1]), MinImage(v[2]), MinImage(v[3])>>

NormSq(v) == v[1] * v[1] + v[2] * v[2] + v[3] * v[3]

\* distance_array(ref, conf, box): row per reference, column per
\* configuration point, here the squared minimum-image distance
distance_array(ref_coords, e_coords) ==
    [k \in 1..Len(ref_coords) |->
        [j \in 1..Len(e_coords) |->
            NormSq(minimize_vectors(VSub(e_coords[j], ref_coords[k])))]]

RECURSIVE VSum(_)
VSum(vs) == IF vs = <<>> THEN VZero ELSE VAdd(Head(vs), VSum(Tail(vs)))

\* wc_coord_rel.mean(axis=0)
VMean(vs) ==
    LET s == VSum(vs)
    IN <<s[1] \div Len(vs), s[2] \div Len(vs), s[3] \div Len(vs)>>

(***************************************************************************)
(* get_sel_ids: the 0-based indices, ascending, of the atoms whose symbol  *)
(* is one of type_map[sel_type].                                           *)
(***************************************************************************)
get_sel_ids(symbols, type_map, sel_type) ==
    SortedSeq({i \in 0..(Len(symbols) - 1) :
                  At(symbols, i) \in {At(type_map, t) : t \in Range(sel_type)}})

(***************************************************************************)
(* read_wannier_spread(...)[:, -1]: the last column of the parsed rows.    *)
(***************************************************************************)
LastColumn(rows) == [j \in 1..Len(rows) |-> rows[j][Len(rows[j])]]

(***************************************************************************)
(* get_atomic_dipole.  The loop raises at the first selected atom whose    *)
(* count is not NWannier; after the loop the uniqueness assertion runs.    *)
(***************************************************************************)
NoGad == [status |-> "none", ii |-> -1, cn |-> -1, mlwc_ids |-> <<>>,
          atomic_dipole |-> <<>>, extended_coords |-> <<>>,
          wannier_spread |-> <<>>]

\* mask = dist_vec < wannier_cutoff, as the set of 0-based centre indices
WithinCutoff(dist_vec, wannier_cutoff) ==
    {j \in 0..(Len(dist_vec) - 1) :
        At(dist_vec, j) < wannier_cutoff * wannier_cutoff}

\* the mutant: only too few centres are refused, too many are let through
CountIsWrong_truncating(cn) == cn < NWannier

\* cn != 4
CountIsWrong(cn) == cn # NWannier

\* the mutant: the uniqueness assertion is dropped
DoubleCounted_unchecked(mlwc_ids, sel_ids) == FALSE

\* not (len(set(mlwc_ids.tolist())) == len(sel_ids) * 4)
DoubleCounted(mlwc_ids, sel_ids) ==
    Cardinality(Range(mlwc_ids)) # Len(sel_ids) * NWannier

get_atomic_dipole(coords, sel_ids, e_coords, wannier_cutoff, has_spread, spread_rows) ==
    LET full_wannier_spread == LastColumn(spread_rows)
        ref_coords == [k \in 1..Len(sel_ids) |-> At(coords, sel_ids[k])]
        dist_mat == distance_array(ref_coords, e_coords)
        mask(k) == WithinCutoff(dist_mat[k], wannier_cutoff)
        bad == {k \in 1..Len(sel_ids) : CountIsWrong(Cardinality(mask(k)))}
        first == CHOOSE k \in bad : \A k2 \in bad : k <= k2
        \* np.where(mask)[0]
        ids(k) == SortedSeq(mask(k))
        \* minimize_vectors(e_coords[mask] - ref_coords[ii]).mean(axis=0)
        dipole(k) ==
            VMean([m \in 1..Len(ids(k)) |->
                      minimize_vectors(VSub(At(e_coords, ids(k)[m]),
                                            ref_coords[k]))])
        mlwc_ids == Flatten([k \in 1..Len(sel_ids) |-> ids(k)])
    IN  IF bad # {}
        THEN [NoGad EXCEPT !.status = "ValueError", !.ii = first - 1,
                           !.cn = Cardinality(mask(first))]
        ELSE IF DoubleCounted(mlwc_ids, sel_ids)
        THEN [NoGad EXCEPT !.status = "AssertionError",
                           !.mlwc_ids = mlwc_ids]
        ELSE [NoGad EXCEPT
                !.status = "ok",
                !.mlwc_ids = mlwc_ids,
                !.atomic_dipole = [k \in 1..Len(sel_ids) |-> dipole(k)],
                !.extended_coords =
                    coords \o [k \in 1..Len(sel_ids) |->
                                  VAdd(dipole(k), ref_coords[k])],
                !.wannier_spread =
                    IF has_spread
                    THEN [k \in 1..Len(sel_ids) |->
                             [m \in 1..Len(ids(k)) |->
                                 At(full_wannier_spread, ids(k)[m])]]
                    ELSE <<>>]

(***************************************************************************)
(* set_dplr_ext_from_cp2k_output.  dp_sys is [symbols, coords, data] with  *)
(* data = [keys, atomic_dipole, wannier_spread]; keys is the set of the    *)
(* entries of dp_sys.data this function has set.  wannier_file is the      *)
(* sequence of [sym, pos] that ase.io.read returns.                        *)
(***************************************************************************)
NoData == [keys |-> {}, atomic_dipole |-> <<>>, wannier_spread |-> <<>>]

\* full = np.zeros((natoms, ...)); full[sel_ids] = values
Scatter(natoms, sel_ids, values, zero) ==
    [i \in 1..natoms |->
        IF \E k \in 1..Len(sel_ids) : sel_ids[k] = i - 1
        THEN values[CHOOSE k \in 1..Len(sel_ids) : sel_ids[k] = i - 1]
        ELSE zero]

IsX(a) == a.sym = "X"

\* mask = (wannier_atoms.symbols == "X"); wannier_atoms[mask].get_positions()
WannierPositions(wannier_file) ==
    LET wannier_atoms == SelectSeq(wannier_file, IsX)
    IN [j \in 1..Len(wannier_atoms) |-> wannier_atoms[j].pos]

\* lines 91-102, r being what the call of get_atomic_dipole returned or
\* raised (an exception of the callee leaves the function at once)
set_dplr_ext_from_cp2k_output(dp_sys, sel_ids, r) ==
    IF r.status # "ok"
    THEN [status |-> r.status, sel_ids |-> sel_ids, data |-> dp_sys.data]
    ELSE [status |-> "ok",
          sel_ids |-> sel_ids,
          data |->
            [keys |-> {"atomic_dipole"} \cup
                      (IF Len(r.wannier_spread) > 0
                       THEN {"wannier_spread"} ELSE {}),
             atomic_dipole |->
                Scatter(Len(dp_sys.symbols), sel_ids, r.atomic_dipole, VZero),
             wannier_spread |->
                IF Len(r.wannier_spread) > 0
                THEN Scatter(Len(dp_sys.symbols), sel_ids, r.wannier_spread,
                             Copies(NWannier, 0))
                ELSE <<>>]]

(***************************************************************************)
(* dpdata_read_cp2k_dplr_data: a ValueError from below becomes the return  *)
(* value None; any other exception leaves the function.                    *)
(***************************************************************************)
\* except ValueError
Caught(status) == status = "ValueError"

\* lines 47-59, e being what the call of set_dplr_ext_from_cp2k_output
\* returned or raised
dpdata_read_cp2k_dplr_data(e) ==
    [outcome |-> IF e.status = "ok" \/ Caught(e.status)
                 THEN "returned" ELSE "raised",
     exception |-> IF e.status = "ok" \/ Caught(e.status)
                   THEN "none" ELSE e.status,
     is_none |-> e.status # "ok" /\ Caught(e.status),
     data |-> IF e.status = "ok" THEN e.data ELSE NoData]

(***************************************************************************)
(* get_unused_symbols: scan ase.data.chemical_symbols from its end,        *)
(* keeping the symbols not in used_symbols; the length test that ends the  *)
(* scan runs after every symbol, kept or not.                              *)
(***************************************************************************)
chemical_symbols ==
    <<"X", "H", "He", "Li", "Be", "B", "C", "N", "O", "F", "Ne", "Na",
      "Mg", "Al", "Si", "P", "S", "Cl", "Ar", "K", "Ca", "Sc", "Ti", "V",
      "Cr", "Mn", "Fe", "Co", "Ni", "Cu", "Zn", "Ga", "Ge", "As", "Se",
      "Br", "Kr", "Rb", "Sr", "Y", "Zr", "Nb", "Mo", "Tc", "Ru", "Rh",
      "Pd", "Ag", "Cd", "In", "Sn", "Sb", "Te", "I", "Xe", "Cs", "Ba",
      "La", "Ce", "Pr", "Nd", "Pm", "Sm", "Eu", "Gd", "Tb", "Dy", "Ho",
      "Er", "Tm", "Yb", "Lu", "Hf", "Ta", "W", "Re", "Os", "Ir", "Pt",
      "Au", "Hg", "Tl", "Pb", "Bi", "Po", "At", "Rn", "Fr", "Ra", "Ac",
      "Th", "Pa", "U", "Np", "Pu", "Am", "Cm", "Bk", "Cf", "Es", "Fm",
      "Md", "No", "Lr", "Rf", "Db", "Sg", "Bh", "Hs", "Mt", "Ds", "Rg",
      "Cn", "Nh", "Fl", "Mc", "Lv", "Ts", "Og">>

\* the mutant: every symbol counts as unused
IsUnused_any(symbol, used_symbols) == TRUE

\* symbol not in used_symbols
IsUnused(symbol, used_symbols) == symbol \notin Range(used_symbols)

\* one round of the loop on st = [unused_symbols, broke]: nothing after the
\* break, else the append and the length test
ScanRound(symbol, used_symbols, size, st) ==
    IF st.broke THEN st
    ELSE LET appended ==
                IF IsUnused(symbol, used_symbols)
                THEN Append(st.unused_symbols, symbol)
                ELSE st.unused_symbols
         IN [unused_symbols |-> appended, broke |-> Len(appended) = size]

RECURSIVE ScanRounds(_, _, _, _, _)
\* rounds lo..hi of the loop, in order, from st; round r looks at the r-th
\* symbol from the end of chemical_symbols (the rounds are split in halves
\* only to keep the evaluation shallow)
ScanRounds(lo, hi, used_symbols, size, st) ==
    IF lo = hi
    THEN ScanRound(chemical_symbols[Len(chemical_symbols) + 1 - lo],
                   used_symbols, size, st)
    ELSE LET half == ScanRounds(lo, (lo + hi) \div 2, used_symbols, size, st)
         IN IF half.broke THEN half
            ELSE ScanRounds((lo + hi) \div 2 + 1, hi, used_symbols, size,
                            half)

get_unused_symbols(used_symbols, size) ==
    ScanRounds(1, Len(chemical_symbols), used_symbols, size,
               [unused_symbols |-> <<>>, broke |-> FALSE]).unused_symbols

(***************************************************************************)
(* dump_dplr_lammps_data.  atoms is a sequence of [sym, pos]; the result   *)
(* records what the call built and what it handed to LammpsData.write.     *)
(***************************************************************************)
NoDump == [status |-> "none", vtypes |-> <<>>, new_atoms |-> <<>>,
           charges |-> <<>>, bonds |-> <<>>, specorder |-> <<>>,
           written |-> FALSE]

\* the mutant: only the system charge map is compared with its type list
LengthMismatch_first(type_map, sel_type, sys_charge_map, model_charge_map) ==
    Len(type_map) # Len(sys_charge_map)

\* the two length tests at the top of the function
LengthMismatch(type_map, sel_type, sys_charge_map, model_charge_map) ==
    \/ Len(type_map) # Len(sys_charge_map)
    \/ Len(sel_type) # Len(model_charge_map)

\* np.where(atoms.symbols == symbol)[0]
WhereSymbol(atoms, symbol) ==
    SortedSeq({i \in 0..(Len(atoms) - 1) : At(atoms, i).sym = symbol})

\* the mutant: the virtual indices are counted from the end of the base
\* structure, not from the end of the structure grown so far
VirtualIds_base(atoms, new_atoms, n) == [m \in 1..n |-> (m - 1) + Len(atoms)]

\* np.arange(len(v_atoms)) + len(new_atoms)
VirtualIds(atoms, new_atoms, n) == [m \in 1..n |-> (m - 1) + Len(new_atoms)]

RECURSIVE AddVirtual(_, _, _, _, _)
\* the loop over zip(sel_type, vtypes), about to run its k-th round with
\* st = [new_atoms, r_atom_ids, v_atom_ids]
AddVirtual(k, atoms, type_map, pairs, st) ==
    IF k > Len(pairs) THEN st
    ELSE LET atype == pairs[k][1]
             vtype == pairs[k][2]
             r_ids == WhereSymbol(atoms, At(type_map, atype))
             v_atoms == [m \in 1..Len(r_ids) |->
                            [sym |-> vtype, pos |-> At(atoms, r_ids[m]).pos]]
         IN AddVirtual(k + 1, atoms, type_map, pairs,
                [new_atoms |-> st.new_atoms \o v_atoms,
                 r_atom_ids |-> st.r_atom_ids \o r_ids,
                 v_atom_ids |-> st.v_atom_ids
                                \o VirtualIds(atoms, st.new_atoms, Len(r_ids))])

\* zip(a, b): as long as the shorter of the two
Zip(a, b) ==
    [i \in 1..(IF Len(a) <= Len(b) THEN Len(a) ELSE Len(b)) |-> <<a[i], b[i]>>]

\* the mutant: the two charge maps are concatenated in the wrong order
ChargePairs_swapped(type_map, vtypes, sys_charge_map, model_charge_map) ==
    Zip(type_map \o vtypes, model_charge_map \o sys_charge_map)

\* zip(type_map + vtypes, sys_charge_map + model_charge_map)
ChargePairs(type_map, vtypes, sys_charge_map, model_charge_map) ==
    Zip(type_map \o vtypes, sys_charge_map \o model_charge_map)

\* charges = zeros; for atype, charge in pairs: charges[symbols == atype] =
\* charge: the charge of the last pair naming the symbol, 0 without one
BuildCharges(new_atoms, pairs) ==
    [i \in 1..Len(new_atoms) |->
        LET hits == {p \in 1..Len(pairs) : pairs[p][1] = new_atoms[i].sym}
        IN IF hits = {} THEN 0
           ELSE pairs[CHOOSE p \in hits : \A q \in hits : q <= p][2]]

\* rows of (bond id, bond type, bond left, bond right), indices from 1
BuildBonds(r_atom_ids, v_atom_ids) ==
    [b \in 1..Len(r_atom_ids) |->
        <<(b - 1) + 1, 1, r_atom_ids[b] + 1, v_atom_ids[b] + 1>>]

dump_dplr_lammps_data(atoms, type_map, sel_type, sys_charge_map, model_charge_map) ==
    IF LengthMismatch(type_map, sel_type, sys_charge_map, model_charge_map)
    THEN [NoDump EXCEPT !.status = "ValueError"]
    ELSE LET vtypes == get_unused_symbols(type_map, Len(sel_type))
             st == AddVirtual(1, atoms, type_map, Zip(sel_type, vtypes),
                              [new_atoms |-> atoms, r_atom_ids |-> <<>>,
                               v_atom_ids |-> <<>>])
         IN [status |-> "ok",
             vtypes |-> vtypes,
             new_atoms |-> st.new_atoms,
             charges |-> BuildCharges(st.new_atoms,
                            ChargePairs(type_map, vtypes, sys_charge_map,
                                        model_charge_map)),
             bonds |-> BuildBonds(st.r_atom_ids, st.v_atom_ids),
             specorder |-> type_map \o vtypes,
             written |-> TRUE]

(***************************************************************************)
(* The format reshapers.  The data directory holds type_map.raw, type.raw  *)
(* and some of the three tensor files; a tensor file is a 2-d array, here  *)
(* the sequence of its rows (one per frame).                               *)
(***************************************************************************)
atomic_data_fnames ==
    <<"atomic_dipole.npy", "atomic_polarizability.npy", "wannier_spread.npy">>

\* np.where(np.isin(np.array(type_map)[atype], sel_symbol))[0]
ReshapeSelIds(type_map, atype, sel_symbol) ==
    SortedSeq({i \in 0..(Len(atype) - 1) :
                  At(type_map, At(atype, i)) \in Range(sel_symbol)})

\* array.reshape([n, -1]) of a flat array: n rows of equal length
Rows(flat, n) ==
    [f \in 1..n |-> SubSeq(flat, (f - 1) * (Len(flat) \div n) + 1,
                           f * (Len(flat) \div n))]

\* whether reshape([n, -1]) of an array of the given size succeeds
CanReshape(size, n) == n > 0 /\ size % n = 0

\* full = zeros([n_atoms, n_dim]); full[sel_ids] = chunks; flattened
ScatterRow(row, sel_ids, n_atoms, n_dim) ==
    Flatten([i \in 1..n_atoms |->
        IF \E k \in 1..Len(sel_ids) : sel_ids[k] = i - 1
        THEN Rows(row, Len(sel_ids))[
                 CHOOSE k \in 1..Len(sel_ids) : sel_ids[k] = i - 1]
        ELSE Copies(n_dim, 0)])

\* row.reshape([n_atoms, -1])[sel_ids], flattened
GatherRow(row, sel_ids, n_atoms) ==
    Flatten([k \in 1..Len(sel_ids) |-> Rows(row, n_atoms)[sel_ids[k] + 1]])

\* the local n_frames of dplr_v2_to_v3 before its first assignment
Unbound == -1

\* the body of the inner loop of dplr_v2_to_v3 for one file, with
\* st = [files, n_frames, status]: n_frames is read by the reshape before
\* it is assigned
V2ToV3File(fname, type_map, atype, sel_symbol, st) ==
    LET sel_ids == ReshapeSelIds(type_map, atype, sel_symbol)
        n_atoms == Len(atype)
        flat == Flatten(st.files[fname].rows)
        per_frame == st.n_frames * Len(sel_ids)
        raw_data == Rows(flat, st.n_frames)
        n_dim == Len(flat) \div per_frame
    IN  IF st.n_frames = Unbound
        THEN [st EXCEPT !.status = "UnboundLocalError"]
        ELSE IF ~CanReshape(Len(flat), per_frame)
        THEN [st EXCEPT !.status = "ValueError"]
        ELSE [st EXCEPT !.files[fname].rows =
                [f \in 1..st.n_frames |->
                    ScatterRow(raw_data[f], sel_ids, n_atoms, n_dim)]]

\* the body of the inner loop of dplr_v3_to_v2 for one file
V3ToV2File(fname, type_map, atype, sel_symbol, st) ==
    LET sel_ids == ReshapeSelIds(type_map, atype, sel_symbol)
        n_atoms == Len(atype)
        raw_data == st.files[fname].rows
        n_frames == Len(raw_data)
    IN  IF ~CanReshape(Len(Flatten(raw_data)), n_frames * n_atoms)
        THEN [st EXCEPT !.status = "ValueError"]
        ELSE [st EXCEPT !.files[fname].rows =
                [f \in 1..n_frames |->
                    GatherRow(raw_data[f], sel_ids, n_atoms)],
                        !.n_frames = n_frames]

RECURSIVE dplr_v2_to_v3_from(_, _, _, _)
\* the loop over atomic_data_fnames from the j-th name on; glob finds the
\* file of that name if the directory holds it; an exception ends the call
dplr_v2_to_v3_from(j, d, sel_symbol, st) ==
    IF j > Len(atomic_data_fnames) \/ st.status # "ok" THEN st
    ELSE dplr_v2_to_v3_from(j + 1, d, sel_symbol,
            IF st.files[atomic_data_fnames[j]].present
            THEN V2ToV3File(atomic_data_fnames[j], d.type_map, d.atype,
                            sel_symbol, st)
            ELSE st)

dplr_v2_to_v3(d, sel_symbol) ==
    dplr_v2_to_v3_from(1, d, sel_symbol,
        [files |-> d.files, n_frames |-> Unbound, status |-> "ok"])

RECURSIVE dplr_v3_to_v2_from(_, _, _, _)
dplr_v3_to_v2_from(j, d, sel_symbol, st) ==
    IF j > Len(atomic_data_fnames) \/ st.status # "ok" THEN st
    ELSE dplr_v3_to_v2_from(j + 1, d, sel_symbol,
            IF st.files[atomic_data_fnames[j]].present
            THEN V3ToV2File(atomic_data_fnames[j], d.type_map, d.atype,
                            sel_symbol, st)
            ELSE st)

dplr_v3_to_v2(d, sel_symbol) ==
    dplr_v3_to_v2_from(1, d, sel_symbol,
        [files |-> d.files, n_frames |-> Unbound, status |-> "ok"])

(***************************************************************************)
(* The inputs of a loader call.                                            *)
(***************************************************************************)
\* sites of the cell at which atoms and centres are placed; the first is
\* adjacent to the second through the periodic boundary
Sites == << <<BoxLen - NWannier, 0, 0>>, <<0, 0, 0>>, <<0, NWannier, 0>> >>

TypeMap == <<"O", "H">>
SelTypes == {<<>>, <<0>>, <<0, 1>>}
Cutoffs == {1, 5}

\* c1, c2, c3 centres on the three sites, in file order
CentresAt(c) ==
    Copies(c[1], Sites[1]) \o Copies(c[2], Sites[2]) \o Copies(c[3], Sites[3])

\* the rows of the spread file: (line[1], line[2]) of centre j
SpreadRows(n) == [j \in 1..n |-> <<j, 10 + j>>]

\* the wannier file lists the atoms of the frame, then the centres as "X"
WannierFile(f) ==
    [i \in 1..Len(f.symbols) |-> [sym |-> f.symbols[i], pos |-> f.coords[i]]]
    \o [j \in 1..Len(f.centres) |-> [sym |-> "X", pos |-> f.centres[j]]]

NoExt == [status |-> "none", sel_ids |-> <<>>, data |-> NoData]
NoLoaded == [outcome |-> "none", exception |-> "none", is_none |-> FALSE,
             data |-> NoData]

\* the frames a run may start from: the CP2K output, the wannier file and
\* the arguments of the call
\* no two atoms of a structure sit on the same point
Placements(n) ==
    {w \in [1..n -> 1..Len(Sites)] : \A i, j \in 1..n : w[i] = w[j] => i = j}

CentreCounts ==
    {x \in [1..Len(Sites) -> 0..MaxCentres] : x[1] + x[2] + x[3] <= MaxCentres}

NoFrame == [symbols |-> <<>>, coords |-> <<>>, centres |-> <<>>,
            sel_type |-> <<>>, wannier_cutoff |-> 0, has_spread |-> FALSE]
NoCall == [atoms |-> <<>>, type_map |-> <<>>, sel_type |-> <<>>,
           sys_charge_map |-> <<>>, model_charge_map |-> <<>>]
NoGus == [used_symbols |-> <<>>, size |-> 0, result |-> <<>>]

NoFiles == [fname \in Range(atomic_data_fnames) |->
               [present |-> FALSE, rows |-> <<>>]]

NoDisk ==
    /\ disk = [type_map |-> <<>>, atype |-> <<>>, files |-> NoFiles]
    /\ orig = [layout |-> "none", sel_symbol |-> <<>>, files |-> NoFiles]
    /\ trail = <<>>

\* nothing has been called yet
Idle ==
    /\ pc = "idle"
    /\ gad = NoGad /\ ext = NoExt /\ loaded = NoLoaded
    /\ dump = NoDump

InitDipole ==
    /\ Idle
    /\ call = NoCall /\ gus = NoGus /\ NoDisk
    /\ \E n \in 1..MaxAtoms :
       \E symbols \in [1..n -> Range(TypeMap)], where \in Placements(n),
          c \in CentreCounts, sel_type \in SelTypes,
          wannier_cutoff \in Cutoffs, has_spread \in BOOLEAN :
          frame = [symbols |-> symbols,
                   coords |-> [i \in 1..n |-> Sites[where[i]]],
                   centres |-> CentresAt(c), sel_type |-> sel_type,
                   wannier_cutoff |-> wannier_cutoff,
                   has_spread |-> has_spread]

\* one call of the loader: the three nested calls, innermost first
ReadCp2kDplrData ==
    /\ pc = "idle"
    /\ gad' = get_atomic_dipole(
                 frame.coords,
                 get_sel_ids(frame.symbols, TypeMap, frame.sel_type),
                 WannierPositions(WannierFile(frame)),
                 frame.wannier_cutoff, frame.has_spread,
                 IF frame.has_spread
                 THEN SpreadRows(Len(frame.centres)) ELSE <<>>)
    /\ ext' = set_dplr_ext_from_cp2k_output(
                 [symbols |-> frame.symbols, coords |-> frame.coords,
                  data |-> NoData],
                 get_sel_ids(frame.symbols, TypeMap, frame.sel_type),
                 gad')
    /\ loaded' = dpdata_read_cp2k_dplr_data(ext')
    /\ pc' = "done"
    /\ UNCHANGED <<frame, call, dump, gus, disk, orig, trail>>

NextDipole == ReadCp2kDplrData

SpecDipole == InitDipole /\ [][NextDipole]_vars

(***************************************************************************)
(* The calls of the LAMMPS writer.                                         *)
(***************************************************************************)
DumpSymbols == {"O", "H", "Og"}

\* type maps name each element once
InjectiveSeqs(S, lo, hi) ==
    UNION {{t \in [1..n -> S] : \A i, j \in 1..n : t[i] = t[j] => i = j} :
              n \in lo..hi}

TypeMaps == InjectiveSeqs(DumpSymbols, 1, 2)

\* charge maps of length n: system charges 1, 2, ..., model charges -1, -2, ...
SysCharges(n) == [i \in 1..n |-> i]
ModelCharges(n) == [k \in 1..n |-> -k]

InitDump ==
    /\ Idle
    /\ frame = NoFrame /\ gus = NoGus /\ NoDisk
    /\ \E n \in 0..MaxDumpAtoms, type_map \in TypeMaps, ns \in 0..MaxSel,
          ds \in -1..1, dm \in -1..1 :
       \E symbols \in [1..n -> DumpSymbols],
          sel_type \in [1..ns -> 0..(Len(type_map) - 1)] :
          /\ Len(type_map) + ds >= 0
          /\ ns + dm >= 0
          /\ call = [atoms |-> [i \in 1..n |->
                                   [sym |-> symbols[i], pos |-> <<i, 0, 0>>]],
                     type_map |-> type_map,
                     sel_type |-> sel_type,
                     sys_charge_map |-> SysCharges(Len(type_map) + ds),
                     model_charge_map |-> ModelCharges(ns + dm)]

DumpDplrLammpsData ==
    /\ pc = "idle"
    /\ dump' = dump_dplr_lammps_data(call.atoms, call.type_map, call.sel_type,
                                     call.sys_charge_map,
                                     call.model_charge_map)
    /\ pc' = "done"
    /\ UNCHANGED <<frame, gad, ext, loaded, call, gus, disk, orig, trail>>

NextDump == DumpDplrLammpsData

SpecDump == InitDump /\ [][NextDump]_vars

(***************************************************************************)
(* The direct calls of get_unused_symbols.                                 *)
(***************************************************************************)
UsedSymbols == {"O", "H", "Lv", "Ts", "Og"}

InitSymbols ==
    /\ Idle
    /\ frame = NoFrame /\ call = NoCall /\ NoDisk
    /\ \E used_symbols \in InjectiveSeqs(UsedSymbols, 0, 2),
          size \in 0..MaxSize :
          gus = [used_symbols |-> used_symbols, size |-> size,
                 result |-> <<>>]

GetUnusedSymbols ==
    /\ pc = "idle"
    /\ gus' = [gus EXCEPT
                 !.result = get_unused_symbols(gus.used_symbols, gus.size)]
    /\ pc' = "done"
    /\ UNCHANGED <<frame, gad, ext, loaded, call, dump, disk, orig, trail>>

NextSymbols == GetUnusedSymbols

SpecSymbols == InitSymbols /\ [][NextSymbols]_vars

(***************************************************************************)
(* The data directories and the calls of the reshapers.                    *)
(***************************************************************************)
SelSymbols == {<<"O">>, <<"H">>, <<"O", "H">>}
FrameCounts == {1, 2}

\* components per atom of the three tensors
DimOf(fname) ==
    IF fname = "atomic_dipole.npy" THEN 3
    ELSE IF fname = "wannier_spread.npy" THEN NWannier
    ELSE 3 * 3

\* the compact (v2) row of frame f: for the k-th selected atom the
\* components 100 f + 10 k + 1, 100 f + 10 k + 2, ..., none of them zero
CompactRow(f, nsel, dim) ==
    Flatten([k \in 1..nsel |-> [c \in 1..dim |-> 100 * f + 10 * k + c]])

\* the files of a directory written in the given layout for sel_symbol
FilesWritten(layout, type_map, atype, sel_symbol, present, n_frames) ==
    LET sel_ids == ReshapeSelIds(type_map, atype, sel_symbol)
    IN [fname \in Range(atomic_data_fnames) |->
          IF fname \notin present
          THEN [present |-> FALSE, rows |-> <<>>]
          ELSE [present |-> TRUE,
                rows |-> [f \in 1..n_frames |->
                    IF layout = "v2"
                    THEN CompactRow(f, Len(sel_ids), DimOf(fname))
                    ELSE ScatterRow(
                            CompactRow(f, Len(sel_ids), DimOf(fname)),
                            sel_ids, Len(atype), DimOf(fname))]]]

InitReshape ==
    /\ Idle
    /\ frame = NoFrame /\ call = NoCall /\ gus = NoGus
    /\ trail = <<>>
    /\ \E n \in 1..MaxTypeAtoms, layout \in {"v2", "v3"},
          sel_symbol \in SelSymbols, n_frames \in FrameCounts,
          present \in SUBSET Range(atomic_data_fnames) :
       \E atype \in [1..n -> 0..(Len(TypeMap) - 1)] :
          \* the files were written for a selection that holds an atom
          /\ ReshapeSelIds(TypeMap, atype, sel_symbol) # <<>>
          /\ orig = [layout |-> layout, sel_symbol |-> sel_symbol,
                     files |-> FilesWritten(layout, TypeMap, atype,
                                            sel_symbol, present, n_frames)]
          /\ disk = [type_map |-> TypeMap, atype |-> atype,
                     files |-> orig.files]

DplrV2ToV3 ==
    /\ Len(trail) < MaxOps
    /\ \E sel_symbol \in SelSymbols :
          LET r == dplr_v2_to_v3(disk, sel_symbol)
          IN /\ disk' = [disk EXCEPT !.files = r.files]
             /\ trail' = Append(trail, [op |-> "v2_to_v3",
                                        sel_symbol |-> sel_symbol,
                                        status |-> r.status])
    /\ UNCHANGED <<pc, frame, gad, ext, loaded, call, dump, gus, orig>>

DplrV3ToV2 ==
    /\ Len(trail) < MaxOps
    /\ \E sel_symbol \in SelSymbols :
          LET r == dplr_v3_to_v2(disk, sel_symbol)
          IN /\ disk' = [disk EXCEPT !.files = r.files]
             /\ trail' = Append(trail, [op |-> "v3_to_v2",
                                        sel_symbol |-> sel_symbol,
                                        status |-> r.status])
    /\ UNCHANGED <<pc, frame, gad, ext, loaded, call, dump, gus, orig>>

NextReshape == DplrV2ToV3 \/ DplrV3ToV2

SpecReshape == InitReshape /\ [][NextReshape]_vars

(***************************************************************************)
(* Properties of the dipole assignor and its loader, stated on the inputs  *)
(* of the call (frame) and on what the three functions did.                *)
(***************************************************************************)
\* the atoms (1-based positions in frame.symbols) of a selected type
SelectedAtoms ==
    {i \in 1..Len(frame.symbols) :
        \E k \in 1..Len(frame.sel_type) :
            frame.symbols[i] = TypeMap[frame.sel_type[k] + 1]}

\* the centres (1-based positions in frame.centres) closer than the cutoff
\* to atom i
CentresNear(i) ==
    {j \in 1..Len(frame.centres) :
        NormSq(minimize_vectors(VSub(frame.centres[j], frame.coords[i])))
            < frame.wannier_cutoff * frame.wannier_cutoff}

SomeCountWrong ==
    \E i \in SelectedAtoms : Cardinality(CentresNear(i)) # NWannier

AllCountsFour ==
    \A i \in SelectedAtoms : Cardinality(CentresNear(i)) = NWannier

SomeCentreShared ==
    \E i, j \in SelectedAtoms : i # j /\ CentresNear(i) \cap CentresNear(j) # {}

\* C1: if some selected atom has a number of Wannier centres within the
\* cutoff that is not exactly 4, get_atomic_dipole raises ValueError and
\* hands back nothing: no dipole, no index list, no spread, and nothing is
\* stored in the labeled system.
C1_CardinalityRaises ==
    (pc = "done" /\ SomeCountWrong) =>
        /\ gad.status = "ValueError"
        /\ gad.atomic_dipole = <<>> /\ gad.mlwc_ids = <<>>
        /\ gad.wannier_spread = <<>> /\ gad.extended_coords = <<>>
        /\ ext.data.keys = {}

\* C1 witness: a selected atom with more than 4 centres in range was refused
C1_Witness ==
    /\ pc = "done"
    /\ \E i \in SelectedAtoms : Cardinality(CentresNear(i)) > NWannier
    /\ gad.status = "ValueError"

\* C2 (as claimed): whenever the assignment fails, by a count that is not 4
\* or by a centre claimed by two atoms, the loader returns None and raises
\* nothing.
C2_AssignmentFailuresBecomeNone ==
    (pc = "done" /\ (SomeCountWrong \/ SomeCentreShared)) =>
        (loaded.outcome = "returned" /\ loaded.is_none)

\* C3 (as claimed): when every selected atom has exactly 4 centres and none
\* is shared, get_atomic_dipole returns one 3-vector per selected atom and
\* the stored atomic_dipole is N x 3, zero off the selection and the
\* computed value on it, in atom order; with a spread file the stored
\* wannier_spread is N x 4 likewise.
C3_DipoleStored ==
    LET sel == SortedSeq(SelectedAtoms)
        n == Len(frame.symbols)
    IN (pc = "done" /\ AllCountsFour /\ ~SomeCentreShared) =>
        /\ gad.status = "ok"
        /\ Len(gad.atomic_dipole) = Len(sel)
        /\ \A k \in 1..Len(sel) : Len(gad.atomic_dipole[k]) = 3
        /\ "atomic_dipole" \in ext.data.keys
        /\ Len(ext.data.atomic_dipole) = n
        /\ \A i \in 1..n :
              /\ Len(ext.data.atomic_dipole[i]) = 3
              /\ i \notin SelectedAtoms => ext.data.atomic_dipole[i] = VZero
        /\ \A k \in 1..Len(sel) :
              ext.data.atomic_dipole[sel[k]] = gad.atomic_dipole[k]
        /\ frame.has_spread =>
              /\ "wannier_spread" \in ext.data.keys
              /\ Len(ext.data.wannier_spread) = n
              /\ \A i \in 1..n :
                    /\ Len(ext.data.wannier_spread[i]) = NWannier
                    /\ i \notin SelectedAtoms =>
                          ext.data.wannier_spread[i] = Copies(NWannier, 0)
              /\ \A k \in 1..Len(sel) :
                    ext.data.wannier_spread[sel[k]] = gad.wannier_spread[k]

\* C3, where it holds: the same statement for the frames in which an atom
\* is selected or no spread file is given
C3_WhenSomeSelected ==
    (SelectedAtoms # {} \/ ~frame.has_spread) => C3_DipoleStored

\* C4: get_atomic_dipole never returns with a centre given to two selected
\* atoms.  When every selected atom has exactly 4 centres in range and some
\* centre is in range of two of them, the call fails on the uniqueness
\* assertion; on every successful return the matched sets are pairwise
\* disjoint and hold 4 x (number of selected atoms) distinct indices.
C4_NoDoubleAssignment ==
    pc = "done" =>
        /\ (AllCountsFour /\ SomeCentreShared) => gad.status = "AssertionError"
        /\ gad.status = "ok" =>
              /\ ~SomeCentreShared
              /\ Len(gad.mlwc_ids) = NWannier * Cardinality(SelectedAtoms)
              /\ Cardinality(Range(gad.mlwc_ids)) = Len(gad.mlwc_ids)
              /\ Range(gad.mlwc_ids) =
                    UNION {{j - 1 : j \in CentresNear(i)} : i \in SelectedAtoms}

\* C4 witness: two selected atoms, 4 centres each, one of them shared, and
\* the call was refused by the assertion
C4_Witness ==
    /\ pc = "done"
    /\ AllCountsFour /\ SomeCentreShared
    /\ \E i, j \in SelectedAtoms :
          i # j /\ CentresNear(i) # CentresNear(j)
    /\ gad.status = "AssertionError"

(***************************************************************************)
(* Properties of the LAMMPS writer, stated on the arguments of the call    *)
(* (call) and on what it built (dump).                                     *)
(***************************************************************************)
\* the base atoms (1-based) whose symbol is type_map[sel_type[k]], ascending
AtomsOfSel(k) ==
    SortedSeq({i \in 1..Len(call.atoms) :
                  call.atoms[i].sym = call.type_map[call.sel_type[k] + 1]})

\* for each virtual atom, in the order they are to be appended: the base
\* atom it is cloned from, and the position in sel_type it is cloned for
RealPartners == Flatten([k \in 1..Len(call.sel_type) |-> AtomsOfSel(k)])
SelOfVirtual ==
    Flatten([k \in 1..Len(call.sel_type) |-> Copies(Len(AtomsOfSel(k)), k)])

\* C5: the augmented structure keeps the N base atoms at their indices and
\* appends one virtual atom per base atom of each selected type, grouped in
\* sel_type order; there is one bond row per virtual atom, with ids 1, 2,
\* ..., type 1, and 1-based (real, virtual) indices such that the virtual
\* atom is the clone of the real one (same position), also with several
\* selected types.
C5_VirtualAtomsAndBonds ==
    LET n == Len(call.atoms)
        nv == Len(RealPartners)
    IN (pc = "done" /\ dump.status = "ok") =>
        /\ Len(dump.new_atoms) = n + nv
        /\ \A i \in 1..n : dump.new_atoms[i] = call.atoms[i]
        /\ Len(dump.bonds) = nv
        /\ \A b \in 1..nv :
              /\ dump.bonds[b] = <<b, 1, RealPartners[b], n + b>>
              /\ dump.new_atoms[dump.bonds[b][4]].pos =
                    call.atoms[dump.bonds[b][3]].pos
              /\ dump.new_atoms[n + b].sym = dump.vtypes[SelOfVirtual[b]]

\* C5 witness: two selected types, each with an atom, written out
C5_Witness ==
    /\ pc = "done" /\ dump.status = "ok"
    /\ Len(call.sel_type) = 2
    /\ call.sel_type[1] # call.sel_type[2]
    /\ AtomsOfSel(1) # <<>> /\ AtomsOfSel(2) # <<>>
    /\ Len(dump.bonds) = Len(call.atoms)

AllSymbolsInTypeMap ==
    \A i \in 1..Len(call.atoms) : call.atoms[i].sym \in Range(call.type_map)

\* C6: when every atom symbol occurs in type_map, the base atom of symbol
\* type_map[t] carries sys_charge_map[t] and the virtual atom cloned for
\* sel_type[k] carries model_charge_map[k], base atoms first, then the
\* virtual ones; no base atom carries a model charge, no virtual atom a
\* system charge.
C6_Charges ==
    LET n == Len(call.atoms)
        nv == Len(RealPartners)
    IN (pc = "done" /\ dump.status = "ok" /\ AllSymbolsInTypeMap) =>
        /\ Len(dump.charges) = n + nv
        /\ \A i \in 1..n : \A t \in 1..Len(call.type_map) :
              call.atoms[i].sym = call.type_map[t] =>
                  dump.charges[i] = call.sys_charge_map[t]
        /\ \A b \in 1..nv :
              dump.charges[n + b] = call.model_charge_map[SelOfVirtual[b]]
        /\ \A i \in 1..n : dump.charges[i] \notin Range(call.model_charge_map)
        /\ \A b \in 1..nv :
              dump.charges[n + b] \notin Range(call.sys_charge_map)

\* C6 witness: base atoms of two types, one of them selected and cloned
C6_Witness ==
    /\ pc = "done" /\ dump.status = "ok" /\ AllSymbolsInTypeMap
    /\ Len(RealPartners) > 0
    /\ \E i, j \in 1..Len(call.atoms) : call.atoms[i].sym # call.atoms[j].sym

LengthsDisagree ==
    \/ Len(call.sys_charge_map) # Len(call.type_map)
    \/ Len(call.model_charge_map) # Len(call.sel_type)

\* C7: when a charge map and its type list differ in length the call fails
\* with ValueError before anything is done: no virtual symbol is chosen, no
\* virtual atom, bond or charge is built, nothing is written.
C7_LengthMismatchFirst ==
    (pc = "done" /\ LengthsDisagree) =>
        /\ dump.status = "ValueError"
        /\ dump.vtypes = <<>> /\ dump.new_atoms = <<>>
        /\ dump.bonds = <<>> /\ dump.charges = <<>>
        /\ dump.specorder = <<>> /\ ~dump.written

\* C7 witness: only model_charge_map is of the wrong length, and there were
\* atoms to clone
C7_Witness ==
    /\ pc = "done"
    /\ Len(call.sys_charge_map) = Len(call.type_map)
    /\ Len(call.model_charge_map) # Len(call.sel_type)
    /\ RealPartners # <<>>
    /\ dump.status = "ValueError"

\* C10 (as claimed): get_unused_symbols returns exactly as many symbols as
\* asked, none for size 0, so that with an empty sel_type the species order
\* handed to the writer is type_map alone.
C10_ExactlySize ==
    (pc = "done" /\ dump.status = "ok") =>
        /\ Len(dump.vtypes) = Len(call.sel_type)
        /\ call.sel_type = <<>> => dump.specorder = call.type_map

(***************************************************************************)
(* Properties of get_unused_symbols, stated on a direct call (gus).        *)
(***************************************************************************)
\* the place of a symbol in chemical_symbols
PlaceOf(symbol) ==
    CHOOSE i \in 1..Len(chemical_symbols) : chemical_symbols[i] = symbol

\* C8: get_unused_symbols returns no symbol that is in used_symbols and no
\* symbol twice; what it returns is what a scan of the element list from
\* its end meets: elements in descending place, none of the unused ones
\* above the last returned left out.  (That two calls with the same
\* arguments agree holds of any operator and is not part of the formula.)
C8_UnusedSymbols ==
    LET r == gus.result
    IN pc = "done" =>
        /\ \A i \in 1..Len(r) : r[i] \in Range(chemical_symbols)
        /\ \A i \in 1..Len(r) : r[i] \notin Range(gus.used_symbols)
        /\ \A i, j \in 1..Len(r) : i < j => PlaceOf(r[i]) > PlaceOf(r[j])
        /\ \A i \in 1..Len(r) : \A p \in (PlaceOf(r[i]) + 1)..Len(chemical_symbols) :
              \/ chemical_symbols[p] \in Range(gus.used_symbols)
              \/ chemical_symbols[p] \in Range(r)

\* C8 witness: the last element of the list is in use and was stepped over
C8_Witness ==
    /\ pc = "done"
    /\ chemical_symbols[Len(chemical_symbols)] \in Range(gus.used_symbols)
    /\ gus.size >= 2
    /\ Len(gus.result) = gus.size

(***************************************************************************)
(* Properties of the reshapers, stated on the directory as first written   *)
(* (orig), as it is now (disk) and on the calls made (trail).              *)
(***************************************************************************)
\* the run is the round trip: compact files, then the scatter with the
\* selection they were written for (and then whatever has followed)
RoundTripBegun ==
    /\ orig.layout = "v2"
    /\ Len(trail) >= 1
    /\ trail[1].op = "v2_to_v3"
    /\ trail[1].sel_symbol = orig.sel_symbol

\* every file of the directory is in the full layout of the original data:
\* zero at the atoms that are not selected, the compact values at the others
FullLayoutOfOrig ==
    LET sel_ids == ReshapeSelIds(disk.type_map, disk.atype, orig.sel_symbol)
    IN \A fname \in Range(atomic_data_fnames) :
          orig.files[fname].present =>
              /\ Len(disk.files[fname].rows) = Len(orig.files[fname].rows)
              /\ \A f \in 1..Len(orig.files[fname].rows) :
                    disk.files[fname].rows[f] =
                        ScatterRow(orig.files[fname].rows[f], sel_ids,
                                   Len(disk.atype), DimOf(fname))

\* C9 (as claimed): from compact files, dplr_v2_to_v3 and then
\* dplr_v3_to_v2 with the same sel_symbol both complete without error; in
\* between the files are in the full layout, zero at every atom that is
\* not selected; at the end they hold the original compact tensors.
C9_RoundTrip ==
    RoundTripBegun =>
        /\ trail[1].status = "ok"
        /\ Len(trail) = 1 => FullLayoutOfOrig
        /\ (/\ Len(trail) >= 2
            /\ trail[2].op = "v3_to_v2"
            /\ trail[2].sel_symbol = orig.sel_symbol) =>
              /\ trail[2].status = "ok"
              /\ Len(trail) = 2 => disk.files = orig.files

====
